---- MODULE Spec2Model ----
(***************************************************************************)
(* A model of package esquerydsl: the rendering of a QueryDoc (a tree of   *)
(* typed QueryItems grouped in the role lists And/Not/Or/Filter) into the  *)
(* Elasticsearch query DSL, the reserved-token escaper and the multisearch *)
(* batch formatter.                                                        *)
(*                                                                         *)
(* Text is a sequence of one-character strings.  A JSON document is a tree *)
(* (JStr, JNum, JBool, JNull, JArr, JObj with an ordered list of members)  *)
(* and Encode turns a tree into the text encoding/json writes.  A call     *)
(* ends in one of three ways: it returns a value, it returns an error, or  *)
(* it panics (a Go runtime panic that unwinds through json.Marshal).       *)
(***************************************************************************)
EXTENDS Integers, Sequences, FiniteSets, TLC

VARIABLES pc, qt, keyword, itemTypeArg, item, query, queries, idx,
          requestBuilder, ret

vars ==
    <<pc, qt, keyword, itemTypeArg, item, query, queries, idx, requestBuilder,
      ret>>

(***************************************************************************)
(* Bounds of the model.                                                    *)
(***************************************************************************)
MaxKeywordLen == 4

MaxWeight == 2

MaxDocs == 2

(***************************************************************************)
(* Text helpers.                                                           *)
(***************************************************************************)
\* F applied to the value of x: x is evaluated once, whatever F does with it
Bind(x, F(_)) == CHOOSE r \in {F(y) : y \in {x}} : TRUE

RECURSIVE Concat(_)
Concat(ss) == IF ss = <<>> THEN <<>> ELSE Head(ss) \o Concat(Tail(ss))

RECURSIVE TextsUpTo(_, _)
TextsUpTo(A, n) ==
    IF n = 0 THEN {<<>>}
    ELSE LET shorter == TextsUpTo(A, n - 1)
         IN  shorter \cup {Append(s, c) : s \in shorter, c \in A}

RECURSIVE SeqsUpTo(_, _)
SeqsUpTo(S, n) ==
    IF n = 0 THEN {<<>>}
    ELSE LET shorter == SeqsUpTo(S, n - 1)
         IN  shorter \cup {Append(s, x) : s \in shorter, x \in S}

Elems(s) == {s[k] : k \in 1..Len(s)}

\* strings.Contains(s, substr)
Contains(s, substr) ==
    \E k \in 1..(Len(s) - Len(substr) + 1) :
        SubSeq(s, k, k + Len(substr) - 1) = substr

\* strings.ReplaceAll(s, old, new) for a non-empty old: the non-overlapping
\* matches are replaced from left to right.
RECURSIVE ReplaceAll(_, _, _)
ReplaceAll(s, old, new) ==
    IF Len(s) < Len(old) THEN s
    ELSE IF SubSeq(s, 1, Len(old)) = old
         THEN new \o ReplaceAll(SubSeq(s, Len(old) + 1, Len(s)), old, new)
         ELSE <<Head(s)>> \o ReplaceAll(Tail(s), old, new)

UpperLetters ==
    <<"A", "B", "C", "D", "E", "F", "G", "H", "I", "J", "K", "L", "M", "N",
      "O", "P", "Q", "R", "S", "T", "U", "V", "W", "X", "Y", "Z">>

LowerLetters ==
    <<"a", "b", "c", "d", "e", "f", "g", "h", "i", "j", "k", "l", "m", "n",
      "o", "p", "q", "r", "s", "t", "u", "v", "w", "x", "y", "z">>

\* strings.ToLower on one character: an upper-case letter becomes its
\* lower-case letter, every other character stays
LowerChar(c) ==
    IF \E k \in 1..Len(UpperLetters) : UpperLetters[k] = c
    THEN LowerLetters[CHOOSE k \in 1..Len(UpperLetters) : UpperLetters[k] = c]
    ELSE c

ToLower(s) == [k \in 1..Len(s) |-> LowerChar(s[k])]

(***************************************************************************)
(* The escaper.                                                            *)
(***************************************************************************)
\* a variant of the list with the backslash escaped last
reserved_BackslashLast ==
    << <<"+">>, <<"=">>, <<"&", "&">>, <<"|", "|">>, <<"!">>,
       <<"(">>, <<")">>, <<"{">>, <<"}">>, <<"[">>, <<"]">>, <<"^">>,
       <<"\"">>, <<"~">>, <<"*">>, <<"?">>, <<":">>, <<"/">>, <<"\\">> >>

reserved ==
    << <<"\\">>, <<"+">>, <<"=">>, <<"&", "&">>, <<"|", "|">>, <<"!">>,
       <<"(">>, <<")">>, <<"{">>, <<"}">>, <<"[">>, <<"]">>, <<"^">>,
       <<"\"">>, <<"~">>, <<"*">>, <<"?">>, <<":">>, <<"/">> >>

\* one iteration of the loop of sanitizeElasticQueryField
sanitizeStep(sanitizedKeyword, char) ==
    IF Contains(sanitizedKeyword, char)
    THEN ReplaceAll(sanitizedKeyword, char, <<"\\">> \o char)
    ELSE sanitizedKeyword

\* the loop over reserved, from its k-th element on
RECURSIVE sanitizeFrom(_, _)
sanitizeFrom(sanitizedKeyword, k) ==
    IF k > Len(reserved) THEN sanitizedKeyword
    ELSE Bind(sanitizeStep(sanitizedKeyword, reserved[k]),
              LAMBDA next : sanitizeFrom(next, k + 1))

\* a variant that leaves a text with a backslash as it is
sanitizeElasticQueryField_OnceOnly(kw) ==
    IF Contains(kw, <<"\\">>) THEN kw ELSE sanitizeFrom(kw, 1)

sanitizeElasticQueryField(kw) == sanitizeFrom(kw, 1)

(***************************************************************************)
(* The kind registry.                                                      *)
(***************************************************************************)
Match == 0

Term == 1

Terms == 2

Wildcard == 3

Range == 4

Exists == 5

QueryString == 6

Nested == 7

NestedQuery == 8

convs ==
    << <<"m", "a", "t", "c", "h">>,
       <<"t", "e", "r", "m">>,
       <<"t", "e", "r", "m", "s">>,
       <<"w", "i", "l", "d", "c", "a", "r", "d">>,
       <<"r", "a", "n", "g", "e">>,
       <<"e", "x", "i", "s", "t", "s">>,
       <<"q", "u", "e", "r", "y", "_", "s", "t", "r", "i", "n", "g">>,
       <<"n", "e", "s", "t", "e", "d">>,
       <<"n", "e", "s", "t", "e", "d", "_", "q", "u", "e", "r", "y">> >>

NoErr == [type |-> "nil"]

QueryTypeErr(typeVal) == [type |-> "QueryTypeErr", typeVal |-> typeVal]

\* a runtime panic: an index out of range or a failed type assertion
RuntimePanic(msg) == [type |-> "panic", msg |-> msg]

\* QueryType.String: the (token, error) pair, or the panic of convs[qt]
QueryTypeString(t) ==
    IF t > Len(convs)
    THEN [st |-> "err", token |-> <<>>, err |-> QueryTypeErr(t)]
    ELSE IF t >= 0 /\ t < Len(convs)
         THEN [st |-> "ok", token |-> convs[t + 1], err |-> NoErr]
         ELSE [st |-> "panic", token |-> <<>>,
               err |-> RuntimePanic("index out of range")]

(***************************************************************************)
(* JSON documents and the text encoding/json writes for them.              *)
(***************************************************************************)
JStr(s) == [j |-> "str", s |-> s]

JNum(n) == [j |-> "num", n |-> n]

JBool(b) == [j |-> "bool", b |-> b]

JNull == [j |-> "null"]

JArr(a) == [j |-> "arr", a |-> a]

\* kv is the ordered list of the members, each a <<key, value>> pair
JObj(kv) == [j |-> "obj", kv |-> kv]

NoJSON == [j |-> "none"]

Keys(o) == {o.kv[k][1] : k \in 1..Len(o.kv)}

HasKey(o, key) == key \in Keys(o)

Get(o, key) == o.kv[CHOOSE k \in 1..Len(o.kv) : o.kv[k][1] = key][2]

\* the characters of the model in byte order
CharOrder ==
    << "\n", "!", "\"", "&", "(", ")", "*", "+", "-", ".", "/", "0",
       "1", "2", "3", "4", "5", "6", "7", "8", "9", ":", "<", "=",
       ">", "?", "A", "B", "C", "D", "E", "F", "G", "H", "I", "J",
       "K", "L", "M", "N", "O", "P", "Q", "R", "S", "T", "U", "V",
       "W", "X", "Y", "Z", "[", "\\", "]", "^", "_", "a", "b", "c",
       "d", "e", "f", "g", "h", "i", "j", "k", "l", "m", "n", "o",
       "p", "q", "r", "s", "t", "u", "v", "w", "x", "y", "z", "{",
       "|", "}", "~" >>

Code(c) == CHOOSE k \in 1..Len(CharOrder) : CharOrder[k] = c

\* byte-wise comparison of two texts, as sort.Strings orders map keys
RECURSIVE TextLess(_, _)
TextLess(a, b) ==
    IF b = <<>> THEN FALSE
    ELSE IF a = <<>> THEN TRUE
    ELSE IF Head(a) = Head(b) THEN TextLess(Tail(a), Tail(b))
    ELSE Code(Head(a)) < Code(Head(b))

\* the keys of a Go map in the order encoding/json writes them
RECURSIVE SortedKeys(_)
SortedKeys(S) ==
    IF S = {} THEN <<>>
    ELSE LET least == CHOOSE x \in S : \A y \in S \ {x} : TextLess(x, y)
         IN  <<least>> \o SortedKeys(S \ {least})

\* a Go map[string]T literal, given as a set of <<key, value>> pairs with
\* distinct keys
MapToJSON(pairs) ==
    LET keys == SortedKeys({p[1] : p \in pairs})
    IN  JObj([k \in 1..Len(keys) |->
                 <<keys[k], (CHOOSE p \in pairs : p[1] = keys[k])[2]>>])

Digit(d) == CharOrder[Code("0") + d]

RECURSIVE NatText(_)
NatText(n) == IF n < 10 THEN <<Digit(n)>>
              ELSE NatText(n \div 10) \o <<Digit(n % 10)>>

IntText(n) == IF n < 0 THEN <<"-">> \o NatText(0 - n) ELSE NatText(n)

\* the escapes of encoding/json inside a string (HTML escaping is on)
EncodeChar(c) ==
    CASE c = "\"" -> <<"\\", "\"">>
      [] c = "\\" -> <<"\\", "\\">>
      [] c = "\n" -> <<"\\", "n">>
      [] c = "&"  -> <<"\\", "u", "0", "0", "2", "6">>
      [] c = "<"  -> <<"\\", "u", "0", "0", "3", "c">>
      [] c = ">"  -> <<"\\", "u", "0", "0", "3", "e">>
      [] OTHER    -> <<c>>

EncodeString(s) ==
    <<"\"">> \o Concat([k \in 1..Len(s) |-> EncodeChar(s[k])]) \o <<"\"">>

RECURSIVE JoinComma(_)
JoinComma(ts) ==
    IF ts = <<>> THEN <<>>
    ELSE IF Len(ts) = 1 THEN ts[1]
    ELSE ts[1] \o <<",">> \o JoinComma(Tail(ts))

RECURSIVE Encode(_)
Encode(v) ==
    CASE v.j = "str"  -> EncodeString(v.s)
      [] v.j = "num"  -> IntText(v.n)
      [] v.j = "bool" -> IF v.b THEN <<"t", "r", "u", "e">> ELSE <<"f", "a", "l", "s", "e">>
      [] v.j = "null" -> <<"n", "u", "l", "l">>
      [] v.j = "arr"  ->
            <<"[">> \o JoinComma([k \in 1..Len(v.a) |-> Encode(v.a[k])])
                    \o <<"]">>
      [] v.j = "obj"  ->
            <<"{">> \o JoinComma([k \in 1..Len(v.kv) |->
                          EncodeString(v.kv[k][1]) \o <<":">>
                              \o Encode(v.kv[k][2])])
                    \o <<"}">>

(***************************************************************************)
(* The keys of the wire format.                                            *)
(***************************************************************************)
T_and == <<"a", "n", "d">>

T_or == <<"o", "r">>

T_not == <<"n", "o", "t">>

T_filter == <<"f", "i", "l", "t", "e", "r">>

T_must == <<"m", "u", "s", "t">>

T_must_not == <<"m", "u", "s", "t", "_", "n", "o", "t">>

T_should == <<"s", "h", "o", "u", "l", "d">>

T_bool == <<"b", "o", "o", "l">>

T_fields == <<"f", "i", "e", "l", "d", "s">>

T_query == <<"q", "u", "e", "r", "y">>

T_analyze_wildcard == <<"a", "n", "a", "l", "y", "z", "e", "_", "w", "i", "l", "d", "c", "a", "r", "d">>

T_nested == <<"n", "e", "s", "t", "e", "d">>

T_path == <<"p", "a", "t", "h">>

T_size == <<"s", "i", "z", "e">>

T_from == <<"f", "r", "o", "m">>

T_sort == <<"s", "o", "r", "t">>

T_search_after == <<"s", "e", "a", "r", "c", "h", "_", "a", "f", "t", "e", "r">>

(***************************************************************************)
(* The caller's values.  QueryItem.Value is an interface{}: the model      *)
(* tags each value with its dynamic type.                                  *)
(***************************************************************************)
StringValue(s) == [t |-> "string", s |-> s]

IntValue(n) == [t |-> "int", n |-> n]

\* a []string
StringsValue(l) == [t |-> "strings", l |-> l]

\* a map[string]string, as a set of <<key, value>> pairs
MapValue(m) == [t |-> "map", m |-> m]

NilValue == [t |-> "nil"]

QueryDocValue(d) == [t |-> "QueryDoc", d |-> d]

NestedQueryItemValue(d) == [t |-> "NestedQueryItem", d |-> d]

\* a plain QueryItem stored in another item's Value
QueryItemValue(i) == [t |-> "QueryItem", i |-> i]

QueryItem(field, value, type) ==
    [Field |-> field, Value |-> value, Type |-> type]

NestedQueryItem(and, not, or, filter) ==
    [And |-> and, Not |-> not, Or |-> or, Filter |-> filter]

QueryDoc(index, size, from, sort, searchAfter, and, not, or, filter, pageSize) ==
    [Index |-> index, Size |-> size, From |-> from, Sort |-> sort,
     SearchAfter |-> searchAfter, And |-> and, Not |-> not, Or |-> or,
     Filter |-> filter, PageSize |-> pageSize]

\* QueryDoc{}: the zero value
EmptyQueryDoc == QueryDoc(<<>>, 0, 0, <<>>, <<>>, <<>>, <<>>, <<>>, <<>>, 0)

\* a variant that compares the role as it is written
WrapQueryItems_CaseSensitive(role, items) ==
    LET queryDoc ==
            CASE role = T_or     -> [EmptyQueryDoc EXCEPT !.Or = items]
              [] role = T_not    -> [EmptyQueryDoc EXCEPT !.Not = items]
              [] role = T_filter -> [EmptyQueryDoc EXCEPT !.Filter = items]
              [] OTHER           -> [EmptyQueryDoc EXCEPT !.And = items]
    IN  QueryItem(<<>>, QueryDocValue(queryDoc), Nested)

\* WrapQueryItems: the role is compared in lower case
WrapQueryItems(itemType, items) ==
    LET lower == ToLower(itemType)
        queryDoc ==
            CASE lower = T_or     -> [EmptyQueryDoc EXCEPT !.Or = items]
              [] lower = T_not    -> [EmptyQueryDoc EXCEPT !.Not = items]
              [] lower = T_filter -> [EmptyQueryDoc EXCEPT !.Filter = items]
              [] OTHER            -> [EmptyQueryDoc EXCEPT !.And = items]
    IN  QueryItem(<<>>, QueryDocValue(queryDoc), Nested)

\* what encoding/json writes for a plain value held in an interface{}
ValueToJSON(v) ==
    CASE v.t = "string"  -> JStr(v.s)
      [] v.t = "int"     -> JNum(v.n)
      [] v.t = "strings" -> JArr([k \in 1..Len(v.l) |-> JStr(v.l[k])])
      [] v.t = "map"     -> MapToJSON({<<p[1], JStr(p[2])>> : p \in v.m})
      [] v.t = "nil"     -> JNull

PlainTypes == {"string", "int", "strings", "map", "nil"}

(***************************************************************************)
(* Results of a call: st is "ok", "err" or "panic".                        *)
(***************************************************************************)
RetOk(v) == [st |-> "ok", v |-> v, out |-> Encode(v), err |-> NoErr]

\* a returned error, with the empty (or nil) byte slice
RetErr(e) == [st |-> "err", v |-> NoJSON, out |-> <<>>, err |-> e]

RetPanic(e) == [st |-> "panic", v |-> NoJSON, out |-> <<>>, err |-> e]

NoRet == [st |-> "none", v |-> NoJSON, out |-> <<>>, err |-> NoErr]

\* encoding/json wraps the error a MarshalJSON method returns
MarshalerError(typeName, e) ==
    [type |-> "MarshalerError", Type |-> typeName, Err |-> e]

\* errors.As(err, &queryTypeErr): the QueryTypeErr in the chain, if any
RECURSIVE Cause(_)
Cause(e) == IF e.type = "MarshalerError" THEN Cause(e.Err) ELSE e

\* the result of json.Marshal on a value whose MarshalJSON returned r
ViaMarshaler(typeName, result) ==
    Bind(result, LAMBDA r :
        IF r.st = "err" THEN RetErr(MarshalerError(typeName, r.err)) ELSE r)

(***************************************************************************)
(* The renderer.                                                           *)
(***************************************************************************)
leafQuery(type, name, value) == [Type |-> type, Name |-> name, Value |-> value]

\* a variant that prepends instead of appending
updateList_Reversed(queryItems) ==
    [k \in 1..Len(queryItems) |->
        leafQuery(queryItems[Len(queryItems) + 1 - k].Type,
                  queryItems[Len(queryItems) + 1 - k].Field,
                  queryItems[Len(queryItems) + 1 - k].Value)]

updateList(queryItems) ==
    [k \in 1..Len(queryItems) |->
        leafQuery(queryItems[k].Type, queryItems[k].Field,
                  queryItems[k].Value)]

\* boolWrap: a nil list and an empty list are both the empty sequence
getWrappedQuery(q) ==
    [Bool |->
        [AndList    |-> IF Len(q.And) > 0 THEN updateList(q.And) ELSE <<>>,
         NotList    |-> IF Len(q.Not) > 0 THEN updateList(q.Not) ELSE <<>>,
         OrList     |-> IF Len(q.Or) > 0 THEN updateList(q.Or) ELSE <<>>,
         FilterList |-> IF Len(q.Filter) > 0 THEN updateList(q.Filter)
                        ELSE <<>>]]

\* the members of a struct written with omitempty: fields is a list of
\* <<key, present, result>>; the first result that is not ok ends the
\* encoding
RECURSIVE EncodeFields(_, _)
EncodeFields(fields, acc) ==
    IF fields = <<>> THEN RetOk(JObj(acc))
    ELSE LET f == Head(fields)
         IN  IF ~f[2] THEN EncodeFields(Tail(fields), acc)
             ELSE IF f[3].st # "ok" THEN f[3]
             ELSE EncodeFields(Tail(fields), Append(acc, <<f[1], f[3].v>>))

RECURSIVE leafQueryMarshalJSON(_), MarshalLeafList(_), MarshalQueryWrap(_)

\* json.Marshal of a []leafQuery, element by element: the first element
\* that does not render ends the encoding
MarshalLeafList(list) ==
    IF list = <<>> THEN RetOk(JArr(<<>>))
    ELSE Bind(ViaMarshaler("leafQuery", leafQueryMarshalJSON(Head(list))),
              LAMBDA h :
                IF h.st # "ok" THEN h
                ELSE Bind(MarshalLeafList(Tail(list)), LAMBDA t :
                        IF t.st # "ok" THEN t
                        ELSE RetOk(JArr(<<h.v>> \o t.v.a))))

\* a variant without omitempty on the four lists
MarshalBoolWrap_NoOmit(b) ==
    Bind(<<MarshalLeafList(b.AndList), MarshalLeafList(b.NotList),
           MarshalLeafList(b.OrList), MarshalLeafList(b.FilterList)>>,
         LAMBDA r :
            EncodeFields(
                << <<T_must, TRUE, r[1]>>, <<T_must_not, TRUE, r[2]>>,
                   <<T_should, TRUE, r[3]>>, <<T_filter, TRUE, r[4]>> >>,
                <<>>))

\* json.Marshal of a boolWrap
MarshalBoolWrap(b) ==
    Bind(<<MarshalLeafList(b.AndList), MarshalLeafList(b.NotList),
           MarshalLeafList(b.OrList), MarshalLeafList(b.FilterList)>>,
         LAMBDA r :
            EncodeFields(
                << <<T_must, Len(b.AndList) > 0, r[1]>>,
                   <<T_must_not, Len(b.NotList) > 0, r[2]>>,
                   <<T_should, Len(b.OrList) > 0, r[3]>>,
                   <<T_filter, Len(b.FilterList) > 0, r[4]>> >>, <<>>))

\* json.Marshal of a queryWrap
MarshalQueryWrap(w) ==
    Bind(MarshalBoolWrap(w.Bool), LAMBDA r :
        EncodeFields(<< <<T_bool, TRUE, r>> >>, <<>>))

\* a variant that passes the value on without escaping it
handleMarshalQueryString_Raw(q, queryType) ==
    IF q.Value.t # "string"
    THEN RetPanic(RuntimePanic("interface conversion"))
    ELSE RetOk(MapToJSON({
            <<queryType, MapToJSON({
                <<T_fields, JArr(<<JStr(q.Name)>>)>>,
                <<T_query, JStr(q.Value.s)>>,
                <<T_analyze_wildcard, JBool(TRUE)>> })>> }))

handleMarshalQueryString(q, queryType) ==
    IF q.Value.t # "string"
    THEN RetPanic(RuntimePanic("interface conversion"))
    ELSE RetOk(MapToJSON({
            <<queryType, MapToJSON({
                <<T_fields, JArr(<<JStr(q.Name)>>)>>,
                <<T_query, JStr(sanitizeElasticQueryField(q.Value.s))>>,
                <<T_analyze_wildcard, JBool(TRUE)>> })>> }))

\* a variant that uses the token of the kind as the key
handleMarshalNestedQuery_RegistryKey(q) ==
    IF q.Value.t # "NestedQueryItem"
    THEN RetErr(QueryTypeErr(NestedQuery))
    ELSE Bind(MarshalQueryWrap(getWrappedQuery(q.Value.d)), LAMBDA inner :
            IF inner.st # "ok" THEN inner
            ELSE RetOk(MapToJSON({
                    <<convs[NestedQuery + 1], MapToJSON({
                        <<T_path, JArr(<<JStr(q.Name)>>)>>,
                        <<T_query, inner.v>> })>> })))

\* a variant that writes the path as a text, not as a list of one text
handleMarshalNestedQuery_PathText(q) ==
    IF q.Value.t # "NestedQueryItem"
    THEN RetErr(QueryTypeErr(NestedQuery))
    ELSE Bind(MarshalQueryWrap(getWrappedQuery(q.Value.d)), LAMBDA inner :
            IF inner.st # "ok" THEN inner
            ELSE RetOk(MapToJSON({
                    <<T_nested, MapToJSON({
                        <<T_path, JStr(q.Name)>>,
                        <<T_query, inner.v>> })>> })))

handleMarshalNestedQuery(q) ==
    IF q.Value.t # "NestedQueryItem"
    THEN RetErr(QueryTypeErr(NestedQuery))
    ELSE Bind(MarshalQueryWrap(getWrappedQuery(q.Value.d)), LAMBDA inner :
            IF inner.st # "ok" THEN inner
            ELSE RetOk(MapToJSON({
                    <<T_nested, MapToJSON({
                        <<T_path, JArr(<<JStr(q.Name)>>)>>,
                        <<T_query, inner.v>> })>> })))

\* a variant that lowercases the text value of every kind
handleMarshalType_LowerAll(q0, queryType) ==
    LET q == IF q0.Value.t = "string"
             THEN [q0 EXCEPT !.Value = StringValue(ToLower(q0.Value.s))]
             ELSE q0
    IN  IF q.Type = QueryString THEN handleMarshalQueryString(q, queryType)
        ELSE IF q.Type = NestedQuery THEN handleMarshalNestedQuery(q)
        ELSE RetOk(MapToJSON({
                <<queryType,
                  MapToJSON({<<q.Name, ValueToJSON(q.Value)>>})>> }))

\* a variant that lowercases nothing
handleMarshalType_NoLower(q0, queryType) ==
    LET q == q0
    IN  IF q.Type = QueryString THEN handleMarshalQueryString(q, queryType)
        ELSE IF q.Type = NestedQuery THEN handleMarshalNestedQuery(q)
        ELSE RetOk(MapToJSON({
                <<queryType,
                  MapToJSON({<<q.Name, ValueToJSON(q.Value)>>})>> }))

handleMarshalType(q0, queryType) ==
    LET q == IF q0.Type = Wildcard /\ q0.Value.t = "string"
             THEN [q0 EXCEPT !.Value = StringValue(ToLower(q0.Value.s))]
             ELSE q0
    IN  IF q.Type = QueryString THEN handleMarshalQueryString(q, queryType)
        ELSE IF q.Type = NestedQuery THEN handleMarshalNestedQuery(q)
        ELSE RetOk(MapToJSON({
                <<queryType,
                  MapToJSON({<<q.Name, ValueToJSON(q.Value)>>})>> }))

leafQueryMarshalJSON(q) ==
    IF q.Type = Nested
    THEN IF q.Value.t # "QueryDoc"
         THEN RetPanic(RuntimePanic("interface conversion"))
         ELSE MarshalQueryWrap(getWrappedQuery(q.Value.d))
    ELSE Bind(QueryTypeString(q.Type), LAMBDA r :
            IF r.st = "err" THEN RetErr(r.err)
            ELSE IF r.st = "panic" THEN RetPanic(r.err)
            ELSE handleMarshalType(q, r.token))

(***************************************************************************)
(* The parent/child kind.  Its renderer is not part of the sources at      *)
(* hand: the kind, its payload and its rendering follow the specification  *)
(* (rule 4 of the Clause Renderer) and the tests TestHasChildQuery and     *)
(* TestHasChildQueryInvalid.  The kind registry above does not know it.    *)
(***************************************************************************)
HasChild == 9

T_has_child == <<"h", "a", "s", "_", "c", "h", "i", "l", "d">>

T_type == <<"t", "y", "p", "e">>

\* HasChildQueryItem{Query, Type}: a wrapped sub-query and a child type
HasChildQueryItemValue(q, type) ==
    [t |-> "HasChildQueryItem", Query |-> q, Type |-> type]

\* {"has_child": {"query": <rendered bool>, "type": childTypeName}}, or
\* the type-mismatch error when the value is not a HasChildQueryItem
handleMarshalHasChild(q) ==
    IF q.Value.t # "HasChildQueryItem"
    THEN RetErr(QueryTypeErr(HasChild))
    ELSE Bind(ViaMarshaler("leafQuery",
                leafQueryMarshalJSON(leafQuery(q.Value.Query.Type,
                    q.Value.Query.Field, q.Value.Query.Value))),
              LAMBDA inner :
                IF inner.st # "ok" THEN inner
                ELSE RetOk(MapToJSON({
                        <<T_has_child, MapToJSON({
                            <<T_query, inner.v>>,
                            <<T_type, JStr(q.Value.Type)>> })>> })))

(***************************************************************************)
(* What a rendering leaves in the caller's document.  updateList copies    *)
(* Type, Field and Value of each QueryItem into a leafQuery of a new       *)
(* slice, and the methods of leafQuery and QueryDoc have value receivers:  *)
(* the assignment q.Value = strings.ToLower(s) changes the receiver's      *)
(* copy.                                                                   *)
(***************************************************************************)
\* the receiver of handleMarshalType after the wildcard assignment
handleMarshalTypeReceiver(q0) ==
    IF q0.Type = Wildcard /\ q0.Value.t = "string"
    THEN [q0 EXCEPT !.Value = StringValue(ToLower(q0.Value.s))]
    ELSE q0

\* a variant in which the caller's item and the receiver share the value
ItemAfterRender_SharedValue(i) ==
    LET q == handleMarshalTypeReceiver(leafQuery(i.Type, i.Field, i.Value))
    IN  QueryItem(i.Field, q.Value, i.Type)

\* the caller's item after the leafQuery made from it was rendered
ItemAfterRender(i) ==
    LET q == handleMarshalTypeReceiver(leafQuery(i.Type, i.Field, i.Value))
    IN  QueryItem(i.Field, i.Value, i.Type)

\* the caller's document after getWrappedQuery and the rendering of its
\* role lists, the documents inside its container items included
RECURSIVE QueryDocAfterRender(_)
QueryDocAfterRender(d) ==
    LET After(l) ==
            [k \in 1..Len(l) |->
                IF l[k].Value.t \in {"QueryDoc", "NestedQueryItem"}
                THEN [l[k] EXCEPT !.Value.d = QueryDocAfterRender(@)]
                ELSE ItemAfterRender(l[k])]
    IN  [d EXCEPT !.And = After(@), !.Not = After(@), !.Or = After(@),
                  !.Filter = After(@)]

\* json.Marshal of a []map[string]string
SortToJSON(sort) ==
    JArr([k \in 1..Len(sort) |->
            MapToJSON({<<p[1], JStr(p[2])>> : p \in sort[k]})])

\* json.Marshal of a []interface{} of plain values
SearchAfterToJSON(searchAfter) ==
    JArr([k \in 1..Len(searchAfter) |-> ValueToJSON(searchAfter[k])])

\* a variant that writes size and from only when they are positive
QueryDocMarshalJSON_PositiveOnly(q) ==
    Bind(MarshalQueryWrap(getWrappedQuery(q)), LAMBDA r :
        Bind(EncodeFields(
                << <<T_query, TRUE, r>>,
                   <<T_size, q.Size > 0, RetOk(JNum(q.Size))>>,
                   <<T_from, q.From > 0, RetOk(JNum(q.From))>>,
                   <<T_sort, Len(q.Sort) > 0, RetOk(SortToJSON(q.Sort))>>,
                   <<T_search_after, Len(q.SearchAfter) > 0,
                     RetOk(SearchAfterToJSON(q.SearchAfter))>> >>, <<>>),
             LAMBDA requestBody :
                IF requestBody.st = "err" THEN RetErr(requestBody.err)
                ELSE requestBody))

\* QueryDoc.MarshalJSON: json.Marshal of the queryReqDoc
QueryDocMarshalJSON(q) ==
    LET queryReq == [Query       |-> getWrappedQuery(q),
                     Size        |-> q.Size,
                     From        |-> q.From,
                     Sort        |-> q.Sort,
                     SearchAfter |-> q.SearchAfter]
        marshalled ==
            Bind(MarshalQueryWrap(queryReq.Query), LAMBDA r :
                EncodeFields(
                    << <<T_query, TRUE, r>>,
                       <<T_size, queryReq.Size # 0,
                         RetOk(JNum(queryReq.Size))>>,
                       <<T_from, queryReq.From # 0,
                         RetOk(JNum(queryReq.From))>>,
                       <<T_sort, Len(queryReq.Sort) > 0,
                         RetOk(SortToJSON(queryReq.Sort))>>,
                       <<T_search_after, Len(queryReq.SearchAfter) > 0,
                         RetOk(SearchAfterToJSON(queryReq.SearchAfter))>> >>,
                    <<>>))
    IN  Bind(marshalled, LAMBDA requestBody :
            IF requestBody.st = "err" THEN RetErr(requestBody.err)
            ELSE requestBody)

\* json.Marshal(query) for a QueryDoc, as the callers and MultiSearchDoc
\* invoke it
jsonMarshal(q) == ViaMarshaler("QueryDoc", QueryDocMarshalJSON(q))

(***************************************************************************)
(* The inputs the callers draw from.                                       *)
(***************************************************************************)
MaxList == 2

SanAlphabet == {"a", "\\", "&", "|", "!", "+"}

Keywords ==
    TextsUpTo(SanAlphabet, MaxKeywordLen)
        \cup {<<"a">> \o reserved[k] \o <<"b">> : k \in 1..Len(reserved)}

KindValues == ((0 - 2)..(Len(convs) + 2)) \cup {100001}

Fields == {<<"f">>, <<"B", "!">>}

StringValues ==
    {StringValue(<<"A", "*", "b">>), StringValue(<<"a", "&", "&">>),
     StringValue(<<>>)}

PlainValues ==
    StringValues \cup
    {IntValue(7), StringsValue(<< <<"A">>, <<"b", "!">> >>),
     MapValue({<< <<"l">>, <<"9">> >>, << <<"g">>, <<"1">> >>}), NilValue}

\* items whose value is a plain value, of every kind but the two containers
PlainItems ==
    {QueryItem(f, v, t) : f \in Fields, v \in PlainValues,
                          t \in KindValues \ {Nested, NestedQuery}}

\* a few items to put in role lists: three that render, one whose kind is
\* far out of range and one whose kind is the first integer after the last
\* constant
LeafSamples ==
    {QueryItem(<<"f">>, StringValue(<<"A", "*", "b">>), Match),
     QueryItem(<<"f">>, StringValue(<<"A", "*", "b">>), Wildcard),
     QueryItem(<<"B", "!">>, StringValue(<<"a", "&", "&">>), QueryString),
     QueryItem(<<"f">>, StringValue(<<"A", "*", "b">>), 100001),
     QueryItem(<<"f">>, IntValue(7), Len(convs))}

Roles == {T_and, T_not, T_or, T_filter}

\* the role texts a caller passes to WrapQueryItems: the four roles in
\* several spellings, and texts that are no role
ItemTypes ==
    Roles \cup
    {<<"O", "R">>, <<"O", "r">>, <<"N", "o", "t">>,
     <<"F", "I", "L", "T", "E", "R">>, <<"A", "N", "D">>,
     <<"m", "u", "s", "t">>, <<"s", "h", "o", "u", "l", "d">>, <<"x">>, <<>>}

\* the items a caller wraps: leaves and wrapped items, two levels deep
WrapItems ==
    {QueryItem(<<"f">>, StringValue(<<"A", "*", "b">>), Match),
     QueryItem(<<"B", "!">>, IntValue(7), Term),
     QueryItem(<<"f">>, StringValue(<<"A", "*", "b">>), 100001),
     WrapQueryItems(<<"F", "I", "L", "T", "E", "R">>,
        <<QueryItem(<<"f">>, IntValue(7), Term)>>),
     WrapQueryItems(T_or,
        <<WrapQueryItems(<<"N", "o", "t">>,
            <<QueryItem(<<"f">>, StringValue(<<"A", "*", "b">>), Wildcard),
              QueryItem(<<"f">>, IntValue(7), Term)>>)>>)}

Wrapped1 ==
    {WrapQueryItems(r, l) : r \in Roles, l \in SeqsUpTo(LeafSamples, MaxList)}

Wrapped2 ==
    {WrapQueryItems(r, <<WrapQueryItems(r2, <<i>>)>>) :
        r \in Roles, r2 \in {T_or, T_filter}, i \in LeafSamples}

\* the role lists of a QueryDoc, as a NestedQueryItem
AsNestedQueryItem(d) == NestedQueryItem(d.And, d.Not, d.Or, d.Filter)

NestedQueryItems ==
    {QueryItem(f, NestedQueryItemValue(AsNestedQueryItem(w.Value.d)),
               NestedQuery) : f \in Fields, w \in Wrapped1 \cup Wrapped2}

\* a NestedQueryItem with two roles filled
TwoRoleItem ==
    QueryItem(<<"f">>,
        NestedQueryItemValue(NestedQueryItem(
            <<QueryItem(<<"f">>, IntValue(7), Term)>>, <<>>,
            <<QueryItem(<<"f">>, StringValue(<<"A", "*", "b">>), Match),
              QueryItem(<<"f">>, StringValue(<<"A", "*", "b">>), Match)>>,
            <<>>)),
        NestedQuery)

\* values a container kind does not expect, and container values under
\* kinds that do not take them
MisplacedValues ==
    {StringValue(<<"A", "*", "b">>), NilValue,
     QueryItemValue(QueryItem(<<"f">>, StringValue(<<"A", "*", "b">>), Match)),
     QueryDocValue([EmptyQueryDoc EXCEPT
        !.And = <<QueryItem(<<"f">>, IntValue(7), Term)>>]),
     NestedQueryItemValue(NestedQueryItem(
        <<QueryItem(<<"f">>, IntValue(7), Term)>>, <<>>, <<>>, <<>>))}

MisplacedItems ==
    {QueryItem(<<"f">>, v, t) :
        v \in MisplacedValues,
        t \in {Nested, NestedQuery, QueryString, Len(convs), 100001}}

\* has_child items: two with a wrapped sub-query and a child type, and
\* one for each value the kind does not expect
HasChildItems ==
    {QueryItem(<<>>, HasChildQueryItemValue(w, <<"c">>), HasChild) :
        w \in {WrapQueryItems(T_and,
                <<QueryItem(<<"f">>, StringValue(<<"A", "*", "b">>), Match),
                  WrapQueryItems(T_or,
                    <<QueryItem(<<"f">>, IntValue(7), Term)>>)>>),
               WrapQueryItems(T_filter,
                <<QueryItem(<<"f">>, IntValue(7), 100001)>>)}}
    \cup {QueryItem(<<>>, v, HasChild) : v \in MisplacedValues}

Items ==
    PlainItems \cup LeafSamples \cup Wrapped1 \cup Wrapped2
        \cup NestedQueryItems \cup {TwoRoleItem} \cup MisplacedItems

\* the items a caller puts into the role lists of a document
DocItems ==
    LeafSamples \cup
    {QueryItem(<<"f">>, MapValue({<< <<"g">>, <<"1">> >>}), Range),
     WrapQueryItems(T_or,
        <<QueryItem(<<"f">>, IntValue(7), Term),
          QueryItem(<<"f">>, StringValue(<<"A", "*", "b">>), Match)>>),
     WrapQueryItems(T_and,
        <<WrapQueryItems(T_filter,
            <<QueryItem(<<"f">>, StringValue(<<"A", "*", "b">>), 100001)>>)>>),
     QueryItem(<<"f">>,
        NestedQueryItemValue(NestedQueryItem(<<>>, <<>>, <<>>,
            <<WrapQueryItems(T_filter,
                <<QueryItem(<<"f">>, StringsValue(<< <<"A">> >>), Terms)>>)>>)),
        NestedQuery),
     QueryItem(<<"f">>,
        NestedQueryItemValue(NestedQueryItem(
            <<QueryItem(<<"f">>, IntValue(7), Term),
              QueryItem(<<"f">>, IntValue(7), 100001)>>, <<>>, <<>>, <<>>)),
        NestedQuery),
     QueryItem(<<"f">>, StringValue(<<"A", "*", "b">>), NestedQuery)}

Indexes == {<<"i", "1">>, <<"i", "\"">>, <<"\\", "\n">>}

Sizes == {0 - 1, 10}

Froms == {5}

PageSizes == {20}

Sorts ==
    { << {<< <<"i", "d">>, <<"a", "s", "c">> >>} >>,
      << {<< <<"b">>, <<"d", "e", "s", "c">> >>},
         {<< <<"a">>, <<"a", "s", "c">> >>} >> }

SearchAfters ==
    { << StringValue(<<"b">>) >>, << IntValue(7), StringValue(<<"a">>) >> }

\* the documents a caller batches
BatchDocs ==
    {[EmptyQueryDoc EXCEPT !.Index = ix, !.And = l] :
        ix \in Indexes, l \in {<<>>} \cup {<<i>> : i \in LeafSamples}}

(***************************************************************************)
(* The batch formatter.                                                    *)
(***************************************************************************)
\* fmt.Sprintf(`{"index":"%s"}`, index)
IndexHeader(index) == <<"{", "\"", "i", "n", "d", "e", "x", "\"", ":", "\"">> \o index \o <<"\"", "}">>

\* a variant that writes the body before the header
MultiSearchStep_BodyFirst(builder, q) ==
    Bind(jsonMarshal(q), LAMBDA body :
        IF body.st # "ok" THEN [body EXCEPT !.out = <<>>]
        ELSE [st |-> "ok", v |-> NoJSON, err |-> NoErr,
              out |-> builder \o body.out \o <<"\n">>
                              \o IndexHeader(q.Index) \o <<"\n">>])

\* one iteration of the loop of MultiSearchDoc over queries[k]: the
\* builder after it, or the error or panic that ends the call
MultiSearchStep(builder, q) ==
    Bind(jsonMarshal(q), LAMBDA body :
        IF body.st # "ok" THEN [body EXCEPT !.out = <<>>]
        ELSE [st |-> "ok", v |-> NoJSON, err |-> NoErr,
              out |-> builder \o IndexHeader(q.Index) \o <<"\n">>
                              \o body.out \o <<"\n">>])

(***************************************************************************)
(* The state machine: a caller is idle, makes one call and looks at what   *)
(* it returned.  pc is the caller's position.                              *)
(***************************************************************************)
NoItem == QueryItem(<<>>, NilValue, Match)

Init ==
    /\ pc = "idle"
    /\ qt = Match
    /\ keyword = <<>>
    /\ itemTypeArg = <<>>
    /\ item = NoItem
    /\ query = EmptyQueryDoc
    /\ queries = <<>>
    /\ idx = 0
    /\ requestBuilder = <<>>
    /\ ret = NoRet

\* qt.String()
String(t) ==
    /\ pc = "idle"
    /\ qt' = t
    /\ ret' = Bind(QueryTypeString(t), LAMBDA r :
                  [st |-> r.st, v |-> NoJSON, out |-> r.token, err |-> r.err])
    /\ pc' = "String"
    /\ UNCHANGED <<itemTypeArg, keyword, item, query, queries, idx, requestBuilder>>

\* sanitizeElasticQueryField(kw)
Sanitize(kw) ==
    /\ pc = "idle"
    /\ keyword' = kw
    /\ ret' = [st |-> "ok", v |-> NoJSON,
               out |-> sanitizeElasticQueryField(kw), err |-> NoErr]
    /\ pc' = "sanitize"
    /\ UNCHANGED <<itemTypeArg, qt, item, query, queries, idx, requestBuilder>>

\* sanitizeElasticQueryField applied to the text it returned
SanitizeAgain ==
    /\ pc = "sanitize"
    /\ ret' = [ret EXCEPT !.out = sanitizeElasticQueryField(ret.out)]
    /\ pc' = "sanitize2"
    /\ UNCHANGED <<itemTypeArg, qt, keyword, item, query, queries, idx, requestBuilder>>

\* leafQuery{Type, Name, Value}.MarshalJSON() for the item i
LeafMarshal(i) ==
    /\ pc = "idle"
    /\ item' = i
    /\ ret' = leafQueryMarshalJSON(leafQuery(i.Type, i.Field, i.Value))
    /\ pc' = "leaf"
    /\ UNCHANGED <<itemTypeArg, qt, keyword, query, queries, idx, requestBuilder>>

\* the number of items and of set fields of a document
Weight(q) ==
    Len(q.And) + Len(q.Not) + Len(q.Or) + Len(q.Filter)
        + (IF q.Index # <<>> THEN 1 ELSE 0) + (IF q.Size # 0 THEN 1 ELSE 0)
        + (IF q.From # 0 THEN 1 ELSE 0) + (IF q.Sort # <<>> THEN 1 ELSE 0)
        + (IF q.SearchAfter # <<>> THEN 1 ELSE 0)
        + (IF q.PageSize # 0 THEN 1 ELSE 0)

\* the caller starts a QueryDoc{} literal
NewQueryDoc ==
    /\ pc = "idle"
    /\ pc' = "build"
    /\ query' = EmptyQueryDoc
    /\ UNCHANGED <<itemTypeArg, qt, keyword, item, queries, idx, requestBuilder, ret>>

Build(q) ==
    /\ pc = "build"
    /\ Weight(query) < MaxWeight
    /\ query' = q
    /\ UNCHANGED <<itemTypeArg, pc, qt, keyword, item, queries, idx, requestBuilder, ret>>

SetIndex(ix) == query.Index = <<>> /\ Build([query EXCEPT !.Index = ix])

SetSize(n) == query.Size = 0 /\ Build([query EXCEPT !.Size = n])

SetFrom(n) == query.From = 0 /\ Build([query EXCEPT !.From = n])

SetPageSize(n) == query.PageSize = 0 /\ Build([query EXCEPT !.PageSize = n])

SetSort(srt) == query.Sort = <<>> /\ Build([query EXCEPT !.Sort = srt])

SetSearchAfter(sa) ==
    query.SearchAfter = <<>> /\ Build([query EXCEPT !.SearchAfter = sa])

AppendAnd(i) == Build([query EXCEPT !.And = Append(@, i)])

AppendNot(i) == Build([query EXCEPT !.Not = Append(@, i)])

AppendOr(i) == Build([query EXCEPT !.Or = Append(@, i)])

AppendFilter(i) == Build([query EXCEPT !.Filter = Append(@, i)])

\* WrapQueryItems(role, items...) and the rendering of the item it returns
WrapMarshal(role, items) ==
    /\ pc = "idle"
    /\ itemTypeArg' = role
    /\ item' = WrapQueryItems(role, items)
    /\ ret' = Bind(WrapQueryItems(role, items), LAMBDA i :
                  leafQueryMarshalJSON(leafQuery(i.Type, i.Field, i.Value)))
    /\ pc' = "wrap"
    /\ UNCHANGED <<qt, keyword, query, queries, idx, requestBuilder>>

\* the rendering of a has_child item
HasChildMarshal(i) ==
    /\ pc = "idle"
    /\ item' = i
    /\ ret' = handleMarshalHasChild(leafQuery(i.Type, i.Field, i.Value))
    /\ pc' = "has_child"
    /\ UNCHANGED <<itemTypeArg, qt, keyword, query, queries, idx, requestBuilder>>

\* json.Marshal(query)
Marshal ==
    /\ pc = "build"
    /\ ret' = jsonMarshal(query)
    /\ query' = QueryDocAfterRender(query)
    /\ pc' = "marshal"
    /\ UNCHANGED <<itemTypeArg, qt, keyword, item, queries, idx, requestBuilder>>

\* MultiSearchDoc(qs): the call and the empty builder
MultiSearchDoc(qs) ==
    /\ pc = "idle"
    /\ queries' = qs
    /\ idx' = 1
    /\ requestBuilder' = <<>>
    /\ pc' = "msearch"
    /\ UNCHANGED <<itemTypeArg, qt, keyword, item, query, ret>>

\* one iteration of its loop
MultiSearchIterate ==
    /\ pc = "msearch"
    /\ idx <= Len(queries)
    /\ \E r \in {MultiSearchStep(requestBuilder, queries[idx])} :
           IF r.st = "ok"
           THEN /\ requestBuilder' = r.out
                /\ idx' = idx + 1
                /\ UNCHANGED <<pc, ret>>
           ELSE /\ ret' = r
                /\ pc' = "msearch_done"
                /\ UNCHANGED <<idx, requestBuilder>>
    /\ queries' = [queries EXCEPT ![idx] = QueryDocAfterRender(@)]
    /\ UNCHANGED <<itemTypeArg, qt, keyword, item, query>>

\* return requestBuilder.String(), nil
MultiSearchReturn ==
    /\ pc = "msearch"
    /\ idx > Len(queries)
    /\ ret' = [st |-> "ok", v |-> NoJSON, out |-> requestBuilder,
               err |-> NoErr]
    /\ pc' = "msearch_done"
    /\ UNCHANGED <<itemTypeArg, qt, keyword, item, query, queries, idx, requestBuilder>>

\* the caller is done with the result
Return ==
    /\ pc \in {"String", "sanitize", "sanitize2", "leaf", "wrap", "has_child",
             "marshal", "msearch_done"}
    /\ pc' = "idle"
    /\ qt' = Match
    /\ keyword' = <<>>
    /\ itemTypeArg' = <<>>
    /\ item' = NoItem
    /\ query' = EmptyQueryDoc
    /\ queries' = <<>>
    /\ idx' = 0
    /\ requestBuilder' = <<>>
    /\ ret' = NoRet

Next ==
    \/ \E t \in KindValues : String(t)
    \/ \E kw \in Keywords : Sanitize(kw)
    \/ SanitizeAgain
    \/ \E i \in Items : LeafMarshal(i)
    \/ \E role \in ItemTypes, l \in SeqsUpTo(WrapItems, MaxList) :
            WrapMarshal(role, l)
    \/ \E i \in HasChildItems : HasChildMarshal(i)
    \/ NewQueryDoc
    \/ \E ix \in Indexes : SetIndex(ix)
    \/ \E n \in Sizes : SetSize(n)
    \/ \E n \in Froms : SetFrom(n)
    \/ \E n \in PageSizes : SetPageSize(n)
    \/ \E srt \in Sorts : SetSort(srt)
    \/ \E sa \in SearchAfters : SetSearchAfter(sa)
    \/ \E i \in DocItems : AppendAnd(i)
    \/ \E i \in DocItems : AppendNot(i)
    \/ \E i \in DocItems : AppendOr(i)
    \/ \E i \in DocItems : AppendFilter(i)
    \/ Marshal
    \/ \E qs \in SeqsUpTo(BatchDocs, MaxDocs) : MultiSearchDoc(qs)
    \/ MultiSearchIterate
    \/ MultiSearchReturn
    \/ Return

Spec == Init /\ [][Next]_vars

(***************************************************************************)
(* Properties.                                                             *)
(***************************************************************************)
EnumeratedKinds == Match..NestedQuery

LeafKinds == Match..QueryString

Rendered == pc = "leaf"

\* an item of an enumerated kind whose value has the shape the kind takes,
\* and so have the items below it
RECURSIVE WellFormed(_)
WellFormed(i) ==
    /\ i.Type \in EnumeratedKinds
    /\ CASE i.Type = QueryString -> i.Value.t = "string"
         [] i.Type = Nested ->
                /\ i.Value.t = "QueryDoc"
                /\ \A l \in {i.Value.d.And, i.Value.d.Not, i.Value.d.Or,
                             i.Value.d.Filter} :
                        \A k \in 1..Len(l) : WellFormed(l[k])
         [] i.Type = NestedQuery ->
                /\ i.Value.t = "NestedQueryItem"
                /\ \A l \in {i.Value.d.And, i.Value.d.Not, i.Value.d.Or,
                             i.Value.d.Filter} :
                        \A k \in 1..Len(l) : WellFormed(l[k])
         [] OTHER -> i.Value.t \in PlainTypes

\* C1: rendering an item whose kind is not an enumerated kind (the first
\* integer after the last constant, a far-out value, a negative one) fails
\* with the QueryTypeErr that carries the kind, and String returns that
\* error and no token for such a kind.
C1_UnknownKindFails ==
    /\ (Rendered /\ item.Type \notin EnumeratedKinds)
            => (ret.st = "err" /\ ret.err = QueryTypeErr(item.Type))
    /\ (pc = "String" /\ qt \notin EnumeratedKinds)
            => (ret.st = "err" /\ ret.err = QueryTypeErr(qt)
                    /\ ret.out = <<>>)

\* C2, as stated: a well-formed item of an enumerated kind renders to an
\* object with exactly one key, the token String returns for its kind.
C2_KeyIsRegistryToken ==
    (Rendered /\ WellFormed(item))
        => /\ ret.st = "ok"
           /\ ret.v.j = "obj"
           /\ Len(ret.v.kv) = 1
           /\ ret.v.kv[1][1] = QueryTypeString(item.Type).token

\* the one key of a rendered item
TopKey(type) ==
    CASE type = Nested      -> T_bool
      [] type = NestedQuery -> T_nested
      [] OTHER              -> QueryTypeString(type).token

\* C2, amended: a well-formed item of an enumerated kind renders to an
\* object with exactly one key; the key is the token of the kind for the
\* kinds match to query_string, "bool" for nested and "nested" for
\* nested_query.
C2_OneTopLevelKey ==
    (Rendered /\ WellFormed(item))
        => /\ ret.st = "ok"
           /\ ret.v.j = "obj"
           /\ Len(ret.v.kv) = 1
           /\ ret.v.kv[1][1] = TopKey(item.Type)
           /\ item.Type \in LeafKinds
                => ret.v.kv[1][1] = convs[item.Type + 1]

C2_Witness ==
    /\ Rendered /\ WellFormed(item) /\ item.Type = NestedQuery
    /\ ret.st = "ok" /\ Keys(ret.v) = {T_nested}

\* C3: an item of kind match, term, terms, range or exists, or of kind
\* wildcard with a value that is not text, renders to
\* {token: {field: value}}: the token of its kind, its field and its value
\* as they are.
GenericLeaf(i) ==
    /\ i.Type \in (LeafKinds \ {QueryString})
    /\ i.Value.t \in PlainTypes
    /\ i.Type = Wildcard => i.Value.t # "string"

C3_GenericLeafShape ==
    (Rendered /\ GenericLeaf(item))
        => /\ ret.st = "ok"
           /\ ret.v = JObj(<< <<convs[item.Type + 1],
                                JObj(<< <<item.Field,
                                          ValueToJSON(item.Value)>> >>)>> >>)
           /\ ret.out = Encode(ret.v)
           /\ item.Value.t = "string"
                => ret.v.kv[1][2].kv[1][2] = JStr(item.Value.s)

C3_Witness ==
    /\ Rendered /\ GenericLeaf(item) /\ item.Type = Match
    /\ item.Field = <<"B", "!">>
    /\ item.Value = StringValue(<<"A", "*", "b">>)
    /\ ret.out = <<"{", "\"", "m", "a", "t", "c", "h", "\"", ":", "{", "\"", "B", "!", "\"", ":", "\"", "A", "*", "b", "\"", "}", "}">>

\* C4: a query_string item with a text value renders to an object with the
\* one key query_string, whose body has exactly the three members
\* fields = [field], query = the sanitized value, analyze_wildcard = true.
C4_QueryStringShape ==
    (Rendered /\ item.Type = QueryString /\ item.Value.t = "string")
        => /\ ret.st = "ok"
           /\ Len(ret.v.kv) = 1
           /\ ret.v.kv[1][1] = <<"q", "u", "e", "r", "y", "_", "s", "t", "r", "i", "n", "g">>
           /\ LET body == ret.v.kv[1][2]
              IN  /\ body.j = "obj"
                  /\ Len(body.kv) = 3
                  /\ Keys(body) = {T_fields, T_query, T_analyze_wildcard}
                  /\ Get(body, T_fields) = JArr(<<JStr(item.Field)>>)
                  /\ Get(body, T_query)
                        = JStr(sanitizeElasticQueryField(item.Value.s))
                  /\ Get(body, T_analyze_wildcard) = JBool(TRUE)

C4_Witness ==
    /\ Rendered /\ item.Type = QueryString
    /\ item.Field = <<"B", "!">>
    /\ item.Value = StringValue(<<"a", "&", "&">>)
    /\ ret.st = "ok"
    /\ Get(ret.v.kv[1][2], T_query) = JStr(<<"a", "\\", "&", "&">>)

\* the tokens of one character that are reserved
ReservedChars ==
    {"\\", "+", "=", "!", "(", ")", "{", "}", "[", "]", "^", "\"", "~", "*",
     "?", ":", "/"}

\* one pass over the text from left to right: a backslash in front of each
\* reserved character and of each pair && or ||, everything else copied
RECURSIVE EscapeScan(_)
EscapeScan(s) ==
    IF s = <<>> THEN <<>>
    ELSE IF Len(s) >= 2 /\ SubSeq(s, 1, 2) \in {<<"&", "&">>, <<"|", "|">>}
         THEN <<"\\">> \o SubSeq(s, 1, 2) \o EscapeScan(SubSeq(s, 3, Len(s)))
    ELSE IF Head(s) \in ReservedChars
         THEN <<"\\", Head(s)>> \o EscapeScan(Tail(s))
    ELSE <<Head(s)>> \o EscapeScan(Tail(s))

HasReserved(s) ==
    \/ \E k \in 1..Len(s) : s[k] \in ReservedChars
    \/ \E k \in 1..(Len(s) - 1) :
            SubSeq(s, k, k + 1) \in {<<"&", "&">>, <<"|", "|">>}

\* the number of backslashes of a text
RECURSIVE Backslashes(_)
Backslashes(s) ==
    IF s = <<>> THEN 0
    ELSE (IF Head(s) = "\\" THEN 1 ELSE 0) + Backslashes(Tail(s))

\* C5: sanitize puts exactly one backslash in front of every reserved
\* character and of every pair && and ||, and changes nothing else: a
\* single & or | stays, an inserted backslash is not escaped again, a text
\* without reserved token comes back as it is.
C5_SanitizeEscapesOnce ==
    pc = "sanitize"
        => /\ ret.out = EscapeScan(keyword)
           /\ ~HasReserved(keyword) => ret.out = keyword
           /\ Len(ret.out) - Len(keyword)
                = Backslashes(ret.out) - Backslashes(keyword)

C5_Witness ==
    /\ pc = "sanitize"
    /\ keyword = <<"\\", "&", "&", "&">>
    /\ ret.out = <<"\\", "\\", "\\", "&", "&", "&">>

Marshalled == pc = "marshal"

RoleKeys == {T_must, T_must_not, T_should, T_filter}

\* the bool object has a key exactly for the role lists of d that are not
\* empty, and every member is a non-empty list
BoolMatches(d, b) ==
    /\ b.j = "obj"
    /\ Keys(b) \subseteq RoleKeys
    /\ HasKey(b, T_must) <=> Len(d.And) > 0
    /\ HasKey(b, T_must_not) <=> Len(d.Not) > 0
    /\ HasKey(b, T_should) <=> Len(d.Or) > 0
    /\ HasKey(b, T_filter) <=> Len(d.Filter) > 0
    /\ \A k \in 1..Len(b.kv) : b.kv[k][2].j = "arr" /\ Len(b.kv[k][2].a) > 0
    /\ \A k, l \in 1..Len(b.kv) : b.kv[k][1] = b.kv[l][1] => k = l

\* the values under a key "bool" anywhere in a JSON document
RECURSIVE BoolObjects(_)
BoolObjects(v) ==
    CASE v.j = "obj" ->
            {v.kv[k][2] : k \in {n \in 1..Len(v.kv) : v.kv[n][1] = T_bool}}
                \cup UNION {BoolObjects(v.kv[k][2]) : k \in 1..Len(v.kv)}
      [] v.j = "arr" -> UNION {BoolObjects(v.a[k]) : k \in 1..Len(v.a)}
      [] OTHER -> {}

NoRoleLists(d) ==
    d.And = <<>> /\ d.Not = <<>> /\ d.Or = <<>> /\ d.Filter = <<>>

\* C6: a rendered bool object, of a document or of a nested or nested_query
\* item, has a role key exactly when the role list is not empty; no bool
\* object at any depth has a member that is null or []; with the four
\* lists empty the bool object is {}.
C6_RoleKeyIffNonEmpty ==
    /\ (Marshalled /\ ret.st = "ok")
            => /\ BoolMatches(query, Get(Get(ret.v, T_query), T_bool))
               /\ NoRoleLists(query)
                    => Get(Get(ret.v, T_query), T_bool) = JObj(<<>>)
    /\ (Rendered /\ ret.st = "ok" /\ item.Type = Nested)
            => BoolMatches(item.Value.d, Get(ret.v, T_bool))
    /\ (Rendered /\ ret.st = "ok" /\ item.Type = NestedQuery)
            => BoolMatches(item.Value.d,
                    Get(Get(Get(ret.v, T_nested), T_query), T_bool))
    /\ ((Marshalled \/ Rendered) /\ ret.st = "ok")
            => \A b \in BoolObjects(ret.v) :
                    /\ b.j = "obj"
                    /\ \A k \in 1..Len(b.kv) :
                            /\ b.kv[k][1] \in RoleKeys
                            /\ b.kv[k][2].j = "arr"
                            /\ Len(b.kv[k][2].a) > 0

C6_Witness ==
    /\ Marshalled /\ ret.st = "ok"
    /\ query.And # <<>> /\ query.Filter # <<>>
    /\ Keys(Get(Get(ret.v, T_query), T_bool)) = {T_must, T_filter}

\* the rendering of one item of a role list
RenderItem(i) == leafQueryMarshalJSON(leafQuery(i.Type, i.Field, i.Value))

\* the list under key in the bool object b is the list of the renderings
\* of the items of l, in the order of l
RoleListRendered(b, key, l) ==
    l # <<>>
        => /\ HasKey(b, key)
           /\ Get(b, key).j = "arr"
           /\ Len(Get(b, key).a) = Len(l)
           /\ \A k \in 1..Len(l) : Get(b, key).a[k] = RenderItem(l[k]).v

\* C7: the list under each role key has the length of the role's input
\* list and its k-th element is the rendering of the k-th item: nothing is
\* reordered, dropped, merged or moved to another role.
C7_OrderPreserved ==
    (Marshalled /\ ret.st = "ok")
        => LET b == Get(Get(ret.v, T_query), T_bool)
           IN  /\ RoleListRendered(b, T_must, query.And)
               /\ RoleListRendered(b, T_must_not, query.Not)
               /\ RoleListRendered(b, T_should, query.Or)
               /\ RoleListRendered(b, T_filter, query.Filter)

C7_Witness ==
    /\ Marshalled /\ ret.st = "ok"
    /\ Len(query.Or) = 2 /\ query.Or[1] # query.Or[2]
    /\ query.Or[1].Type = Wildcard /\ query.Or[2].Type = Match
    /\ Keys(Get(Get(ret.v, T_query), T_bool)) = {T_should}

\* C8: the keys of a rendered document are query, size iff Size is not 0,
\* from iff From is not 0, sort iff Sort is not empty and search_after iff
\* SearchAfter is not empty; nothing else (no page size, no index); sort
\* and search_after keep the order of their elements.
C8_EnvelopeKeys ==
    (Marshalled /\ ret.st = "ok")
        => /\ ret.v.j = "obj"
           /\ Keys(ret.v) =
                {T_query}
                    \cup (IF query.Size # 0 THEN {T_size} ELSE {})
                    \cup (IF query.From # 0 THEN {T_from} ELSE {})
                    \cup (IF query.Sort # <<>> THEN {T_sort} ELSE {})
                    \cup (IF query.SearchAfter # <<>> THEN {T_search_after}
                          ELSE {})
           /\ \A k, l \in 1..Len(ret.v.kv) :
                    ret.v.kv[k][1] = ret.v.kv[l][1] => k = l
           /\ query.Size # 0 => Get(ret.v, T_size) = JNum(query.Size)
           /\ query.From # 0 => Get(ret.v, T_from) = JNum(query.From)
           /\ query.Sort # <<>>
                => /\ Len(Get(ret.v, T_sort).a) = Len(query.Sort)
                   /\ \A k \in 1..Len(query.Sort) :
                        \A p \in query.Sort[k] :
                            Get(Get(ret.v, T_sort).a[k], p[1]) = JStr(p[2])
           /\ query.SearchAfter # <<>>
                => /\ Len(Get(ret.v, T_search_after).a)
                        = Len(query.SearchAfter)
                   /\ \A k \in 1..Len(query.SearchAfter) :
                        Get(ret.v, T_search_after).a[k]
                            = ValueToJSON(query.SearchAfter[k])

C8_Witness ==
    /\ Marshalled /\ ret.st = "ok"
    /\ query.From # 0 /\ Len(query.SearchAfter) = 2
    /\ Keys(ret.v) = {T_query, T_from, T_search_after}

\* the items of the four role lists in the order they are rendered
Flatten(d) == d.And \o d.Not \o d.Or \o d.Filter

\* the items of a document at any depth
RECURSIVE DeepItems(_)
DeepItems(d) ==
    UNION {{i} \cup (IF i.Value.t \in {"QueryDoc", "NestedQueryItem"}
                        /\ i.Type \in {Nested, NestedQuery}
                     THEN DeepItems(i.Value.d) ELSE {}) :
           i \in Elems(Flatten(d))}

\* the first item of the list that does not render
FirstFailure(l) ==
    l[CHOOSE k \in 1..Len(l) :
        /\ RenderItem(l[k]).st # "ok"
        /\ \A n \in 1..(k - 1) : RenderItem(l[n]).st = "ok"]

\* the call rendering the role lists of d ended as the first item that
\* does not render: with its error and no output
FailsAsFirstFailure(d, r) ==
    (\E i \in Elems(Flatten(d)) : RenderItem(i).st # "ok")
        => LET f == RenderItem(FirstFailure(Flatten(d)))
           IN  /\ r.st = f.st
               /\ Cause(r.err) = Cause(f.err)
               /\ r.out = <<>>
               /\ r.v = NoJSON

\* C9: when an item of a document, at any depth, fails to render, the
\* rendering of the document returns the error of a failing item and no
\* output.
C9_AnyFailureIsReturned ==
    (Marshalled /\ \E i \in DeepItems(query) : RenderItem(i).st # "ok")
        => /\ ret.st = "err"
           /\ ret.out = <<>>
           /\ \E i \in DeepItems(query) :
                /\ RenderItem(i).st = "err"
                /\ Cause(ret.err) = Cause(RenderItem(i).err)

\* What holds of the propagation: the call ends as the first item, in the
\* order of rendering, that does not render; when that item returns an
\* error the call returns it and no output, and a call that returns output
\* has no failing item at any depth.
ErrorAborts ==
    /\ Marshalled
        => /\ FailsAsFirstFailure(query, ret)
           /\ (\E i \in DeepItems(query) : RenderItem(i).st # "ok")
                => (ret.st # "ok" /\ ret.out = <<>> /\ ret.v = NoJSON)
           /\ ret.st = "err" => Cause(ret.err).type = "QueryTypeErr"
    /\ (Rendered /\ item.Type = Nested /\ item.Value.t = "QueryDoc")
        => FailsAsFirstFailure(item.Value.d, ret)
    /\ (Rendered /\ item.Type = NestedQuery
            /\ item.Value.t = "NestedQueryItem")
        => FailsAsFirstFailure(item.Value.d, ret)

ErrorAbortsWitness ==
    /\ Marshalled
    /\ Len(query.And) = 2
    /\ RenderItem(query.And[1]).st = "ok"
    /\ query.And[2].Type = Nested
    /\ \E i \in DeepItems(query.And[2].Value.d) :
            /\ i \notin Elems(Flatten(query.And[2].Value.d))
            /\ RenderItem(i).st = "err"
    /\ ret.st = "err" /\ ret.out = <<>>
    /\ Cause(ret.err) = QueryTypeErr(100001)

\* the two lines of one document of a batch
BatchPair(q) ==
    <<"{", "\"", "i", "n", "d", "e", "x", "\"", ":", "\"">> \o q.Index \o <<"\"", "}">> \o <<"\n">>
        \o jsonMarshal(q).out \o <<"\n">>

AllRender(qs) == \A k \in 1..Len(qs) : jsonMarshal(qs[k]).st = "ok"

\* C10: for a list of documents that all render, MultiSearchDoc returns
\* the header line and the rendering line of each document, in the order
\* of the list, each ended by a newline and nothing else; the empty list
\* gives the empty text.
C10_BatchIsConcatenation ==
    (pc = "msearch_done" /\ AllRender(queries))
        => /\ ret.st = "ok"
           /\ ret.err = NoErr
           /\ ret.out = Concat([k \in 1..Len(queries) |->
                                    BatchPair(queries[k])])
           /\ queries = <<>> => ret.out = <<>>

C10_Witness ==
    /\ pc = "msearch_done" /\ AllRender(queries)
    /\ Len(queries) = 2
    /\ queries[1].Index = <<"i", "1">> /\ queries[2].Index = <<"i", "\"">>
    /\ queries[1].And # <<>> /\ queries[2].And = <<>>
    /\ ret.out = <<"{", "\"", "i", "n", "d", "e", "x", "\"", ":", "\"", "i", "1", "\"", "}">> \o <<"\n">> \o jsonMarshal(queries[1]).out
                \o <<"\n">> \o <<"{", "\"", "i", "n", "d", "e", "x", "\"", ":", "\"", "i", "\"", "\"", "}">> \o <<"\n">>
                \o <<"{", "\"", "q", "u", "e", "r", "y", "\"", ":", "{", "\"", "b", "o", "o", "l", "\"", ":", "{", "}", "}", "}">> \o <<"\n">>

\* the position of the first document of the list that does not render
FirstFailingDoc(qs) ==
    CHOOSE k \in 1..Len(qs) :
        /\ jsonMarshal(qs[k]).st # "ok"
        /\ \A n \in 1..(k - 1) : jsonMarshal(qs[n]).st = "ok"

\* C11: when a document of the list does not render, MultiSearchDoc returns
\* the empty text and the error of the first such document in the order of
\* the list; the lines built for the documents before it are not returned
\* and the loop does not go past it.
C11_BatchFailsAsFirstFailure ==
    (pc = "msearch_done" /\ ~AllRender(queries))
        => /\ ret.st = "err"
           /\ ret.out = <<>>
           /\ ret.err = jsonMarshal(queries[FirstFailingDoc(queries)]).err
           /\ idx = FirstFailingDoc(queries)

\* What holds of the batch: the call ends as the first document that does
\* not render ends, with no text, and the loop stops there; when that
\* document returns an error the call returns it.
BatchErrorAborts ==
    (pc = "msearch_done" /\ ~AllRender(queries))
        => LET f == jsonMarshal(queries[FirstFailingDoc(queries)])
           IN  /\ ret.st = f.st
               /\ ret.err = f.err
               /\ ret.out = <<>>
               /\ idx = FirstFailingDoc(queries)
               /\ ret.st = "err" => Cause(ret.err).type = "QueryTypeErr"

BatchErrorAbortsWitness ==
    /\ pc = "msearch_done"
    /\ Len(queries) = 2
    /\ jsonMarshal(queries[1]).st = "ok" /\ queries[1].And # <<>>
    /\ jsonMarshal(queries[2]).st = "err"
    /\ requestBuilder # <<>>
    /\ ret.st = "err" /\ ret.out = <<>> /\ idx = 2
    /\ ret.err = MarshalerError("QueryDoc", MarshalerError("leafQuery", QueryTypeErr(100001)))

\* what the Bool Container produces for the role lists of d: the member
\* "query" of the rendering of a document with these lists
BoolContainer(d) ==
    Get(QueryDocMarshalJSON([EmptyQueryDoc EXCEPT
            !.And = d.And, !.Not = d.Not, !.Or = d.Or,
            !.Filter = d.Filter]).v, T_query)

\* v is {"nested": {"path": [name], "query": <the bool rendering of d>}}
IsNestedOf(v, name, d) ==
    /\ v.j = "obj" /\ Len(v.kv) = 1 /\ Keys(v) = {T_nested}
    /\ LET n == Get(v, T_nested)
       IN  /\ n.j = "obj" /\ Len(n.kv) = 2 /\ Keys(n) = {T_path, T_query}
           /\ Get(n, T_path) = JArr(<<JStr(name)>>)
           /\ Get(n, T_query) = BoolContainer(d)

\* a container item whose value has the type its kind takes
ContainerItem(i) ==
    \/ i.Type = Nested /\ i.Value.t = "QueryDoc"
    \/ i.Type = NestedQuery /\ i.Value.t = "NestedQueryItem"

\* C12, as stated: a rendered nested item and a rendered nested_query item
\* are both {"nested": {"path": [field], "query": <bool rendering of the
\* embedded role lists>}}.
C12_BothRenderNested ==
    (Rendered /\ ContainerItem(item) /\ ret.st = "ok")
        => IsNestedOf(ret.v, item.Field, item.Value.d)

\* C12, amended: a rendered nested_query item is {"nested": {"path":
\* [field], "query": <bool rendering of the embedded role lists>}}; a
\* rendered nested item is that bool rendering itself, {"bool": {...}},
\* with no "nested" and no "path".
C12_NestedQueryRendersNested ==
    (Rendered /\ ContainerItem(item) /\ ret.st = "ok")
        => /\ item.Type = NestedQuery
                => IsNestedOf(ret.v, item.Field, item.Value.d)
           /\ item.Type = Nested
                => /\ ret.v = BoolContainer(item.Value.d)
                   /\ Keys(ret.v) = {T_bool}

C12_Witness ==
    /\ Rendered /\ item = TwoRoleItem /\ ret.st = "ok"
    /\ Get(Get(ret.v, T_nested), T_path) = JArr(<<JStr(<<"f">>)>>)
    /\ Keys(Get(Get(Get(ret.v, T_nested), T_query), T_bool))
            = {T_must, T_should}

\* the wire key of a role text, compared letter by letter whatever the case
EqualFold(a, b) ==
    /\ Len(a) = Len(b)
    /\ \A k \in 1..Len(a) :
            \/ a[k] = b[k]
            \/ \E n \in 1..Len(UpperLetters) :
                    {a[k], b[k]} = {UpperLetters[n], LowerLetters[n]}

RoleKey(role) ==
    IF EqualFold(role, <<"o", "r">>) THEN <<"s", "h", "o", "u", "l", "d">>
    ELSE IF EqualFold(role, <<"n", "o", "t">>) THEN <<"m", "u", "s", "t", "_", "n", "o", "t">>
    ELSE IF EqualFold(role, <<"f", "i", "l", "t", "e", "r">>) THEN <<"f", "i", "l", "t", "e", "r">>
    ELSE <<"m", "u", "s", "t">>

\* the items given to WrapQueryItems: the one role list it filled
WrappedItems == Flatten(item.Value.d)

\* v is {"bool": {key: [the renderings of the items of l in their order]}}
IsBoolOf(v, key, l) ==
    /\ v.j = "obj" /\ Len(v.kv) = 1 /\ v.kv[1][1] = <<"b", "o", "o", "l">>
    /\ LET b == v.kv[1][2]
       IN  /\ b.j = "obj" /\ Len(b.kv) = 1 /\ b.kv[1][1] = key
           /\ b.kv[1][2].j = "arr"
           /\ Len(b.kv[1][2].a) = Len(l)
           /\ \A k \in 1..Len(l) : b.kv[1][2].a[k] = RenderItem(l[k]).v

\* C13, as stated: the item WrapQueryItems(role, items...) returns renders
\* to the bare {"bool": {key: [rendered items in input order]}}, with key
\* should for "or", must_not for "not", filter for "filter" in any case and
\* must for every other role.
C13_WrappedRendersBool ==
    (pc = "wrap" /\ ret.st = "ok")
        => IsBoolOf(ret.v, RoleKey(itemTypeArg), WrappedItems)

\* C13, amended: with at least one item the rendering is the bare
\* {"bool": {key: [rendered items in input order]}}, key chosen as stated;
\* with no item it is {"bool": {}}.  The item has no field and no path or
\* nested wrapper is written, and a wrapped item among the items renders
\* the same way inside the list.
C13_WrappedRendersBoolOrEmpty ==
    /\ pc = "wrap"
        => /\ item.Type = Nested /\ item.Field = <<>>
           /\ item.Value.t = "QueryDoc"
           /\ (\A k \in 1..Len(WrappedItems) :
                    RenderItem(WrappedItems[k]).st = "ok") => ret.st = "ok"
    /\ (pc = "wrap" /\ ret.st = "ok")
        => /\ WrappedItems # <<>>
                => IsBoolOf(ret.v, RoleKey(itemTypeArg), WrappedItems)
           /\ WrappedItems = <<>>
                => ret.v = JObj(<< <<T_bool, JObj(<<>>)>> >>)
           /\ \A k \in 1..Len(WrappedItems) :
                (WrappedItems[k].Type = Nested
                        /\ Flatten(WrappedItems[k].Value.d) # <<>>)
                    => \E key \in RoleKeys :
                        IsBoolOf(ret.v.kv[1][2].kv[1][2].a[k], key,
                                 Flatten(WrappedItems[k].Value.d))

C13_Witness ==
    /\ pc = "wrap" /\ ret.st = "ok"
    /\ itemTypeArg = <<"O", "R">>
    /\ Len(WrappedItems) = 2
    /\ WrappedItems[1].Type = Nested /\ WrappedItems[2].Type = Match
    /\ \E i \in Elems(Flatten(WrappedItems[1].Value.d)) : i.Type = Nested
    /\ Keys(Get(ret.v, T_bool)) = {T_should}

\* a container item whose value does not have the type its kind takes
Misshaped(i) ==
    \/ i.Type = Nested /\ i.Value.t # "QueryDoc"
    \/ i.Type = NestedQuery /\ i.Value.t # "NestedQueryItem"
    \/ i.Type = HasChild /\ i.Value.t # "HasChildQueryItem"

\* C14: rendering a nested, nested_query or has_child item whose value
\* does not have the shape of its kind returns an error to the caller: the
\* call does not panic and returns no rendering, empty or partial.
C14_MisshapedContainerFails ==
    (((Rendered /\ item.Type \in {Nested, NestedQuery})
            \/ (pc = "has_child" /\ item.Type = HasChild))
        /\ Misshaped(item))
        => /\ ret.st = "err"
           /\ ret.err = QueryTypeErr(item.Type)
           /\ ret.v = NoJSON /\ ret.out = <<>>

\* What holds of the two kinds other than nested: a nested_query item and
\* a has_child item with a value of another shape return the QueryTypeErr
\* of their kind and no rendering.
MisshapedNestedQueryFails ==
    (((Rendered /\ item.Type = NestedQuery)
            \/ (pc = "has_child" /\ item.Type = HasChild))
        /\ Misshaped(item))
        => /\ ret.st = "err"
           /\ ret.err = QueryTypeErr(item.Type)
           /\ ret.v = NoJSON /\ ret.out = <<>>

MisshapedNestedQueryFailsWitness ==
    /\ Rendered /\ item.Type = NestedQuery
    /\ item.Value.t = "QueryItem"
    /\ ret.st = "err" /\ ret.err = QueryTypeErr(NestedQuery)

\* t is s with every upper-case letter replaced by its lower-case letter
\* and every other character kept
IsLowerOf(t, s) ==
    /\ Len(t) = Len(s)
    /\ \A k \in 1..Len(s) :
            IF \E n \in 1..Len(UpperLetters) : s[k] = UpperLetters[n]
            THEN \E n \in 1..Len(UpperLetters) :
                    s[k] = UpperLetters[n] /\ t[k] = LowerLetters[n]
            ELSE t[k] = s[k]

\* a leaf item with a plain value
PlainLeaf(i) == i.Type \in LeafKinds /\ i.Value.t \in PlainTypes

\* C15: the rendered value of a wildcard item with a text value is the
\* lower-case form of the text, under the field as it is written; a
\* wildcard item with another value and an item of any other kind are
\* rendered with their value in the case it has.
C15_OnlyWildcardTextLowered ==
    (Rendered /\ PlainLeaf(item) /\ ret.st = "ok")
        => LET body == ret.v.kv[1][2]
           IN  /\ (item.Type = Wildcard /\ item.Value.t = "string")
                    => /\ ret.v.kv[1][1] = <<"w", "i", "l", "d", "c", "a", "r", "d">>
                       /\ Len(body.kv) = 1
                       /\ body.kv[1][1] = item.Field
                       /\ body.kv[1][2].j = "str"
                       /\ IsLowerOf(body.kv[1][2].s, item.Value.s)
               /\ (item.Type = Wildcard /\ item.Value.t # "string")
                    => body.kv[1][2] = ValueToJSON(item.Value)
               /\ item.Type = QueryString
                    => Get(body, T_query)
                            = JStr(sanitizeElasticQueryField(item.Value.s))
               /\ item.Type \notin {Wildcard, QueryString}
                    => /\ body.kv[1][1] = item.Field
                       /\ body.kv[1][2] = ValueToJSON(item.Value)

C15_Witness ==
    /\ Rendered /\ item.Type = Wildcard
    /\ item.Field = <<"B", "!">>
    /\ item.Value = StringValue(<<"A", "*", "b">>)
    /\ ret.out = <<"{", "\"", "w", "i", "l", "d", "c", "a", "r", "d", "\"", ":", "{", "\"", "B", "!", "\"", ":", "\"", "a", "*", "b", "\"", "}", "}">>

C17_SanitizeNotIdempotent ==
    pc = "sanitize2"
        => LET once == sanitizeElasticQueryField(keyword)
           IN  /\ HasReserved(keyword)
                    => /\ ret.out # once
                       /\ ret.out = EscapeScan(once)
                       /\ Len(once) > Len(keyword)
                       /\ Len(ret.out) - Len(once)
                            = 2 * (Len(once) - Len(keyword))
               /\ ~HasReserved(keyword)
                    => (ret.out = once /\ once = keyword)

C17_Witness ==
    /\ pc = "sanitize2"
    /\ keyword = <<"!", "&", "&">>
    /\ ret.out = <<"\\", "\\", "\\", "!", "\\", "\\", "\\", "&", "&">>

\* C18: rendering a query_string item returns a JSON fragment or an error
\* for every value, a number, a list, a mapping and a missing value
\* included; it does not panic.
C18_QueryStringTotal ==
    (Rendered /\ item.Type = QueryString)
        => \/ ret.st = "ok" /\ ret.v.j = "obj"
           \/ ret.st = "err" /\ ret.err # NoErr

\* the positions of the newlines of a text, and its j-th one
Newlines(t) == {k \in 1..Len(t) : t[k] = "\n"}

NewlineAt(t, j) ==
    CHOOSE k \in Newlines(t) : Cardinality({n \in Newlines(t) : n <= k}) = j

\* the j-th line of a text, without its newline
Line(t, j) ==
    SubSeq(t, (IF j = 1 THEN 0 ELSE NewlineAt(t, j - 1)) + 1,
              NewlineAt(t, j) - 1)

\* every line of the text is ended by a newline
NewlineTerminated(t) == t = <<>> \/ t[Len(t)] = "\n"

\* the text a JSON decoder reads from the inside of a string literal: a
\* quote or a newline that is not escaped ends the decoding with a failure
RECURSIVE DecodeBody(_)
DecodeBody(s) ==
    IF s = <<>> THEN [ok |-> TRUE, s |-> <<>>]
    ELSE IF Head(s) \in {"\"", "\n"} THEN [ok |-> FALSE, s |-> <<>>]
    ELSE IF Head(s) = "\\"
         THEN IF Len(s) >= 2 /\ s[2] \in {"\"", "\\", "/", "n"}
              THEN Bind(DecodeBody(SubSeq(s, 3, Len(s))), LAMBDA r :
                    [r EXCEPT !.s = <<IF s[2] = "n" THEN "\n" ELSE s[2]>> \o @])
              ELSE [ok |-> FALSE, s |-> <<>>]
    ELSE Bind(DecodeBody(Tail(s)), LAMBDA r : [r EXCEPT !.s = <<Head(s)>> \o @])

\* the line is the JSON object {"index": <string>} and the string decodes
\* to the index
HeaderDecodesTo(line, index) ==
    /\ Len(line) >= 12
    /\ SubSeq(line, 1, 10) = <<"{", "\"", "i", "n", "d", "e", "x", "\"", ":", "\"">>
    /\ SubSeq(line, Len(line) - 1, Len(line)) = <<"\"", "}">>
    /\ Bind(DecodeBody(SubSeq(line, 11, Len(line) - 2)), LAMBDA r :
            r.ok /\ r.s = index)

\* the text is 2 * Len(qs) lines and the odd ones are the headers of qs
IsBatchOf(t, qs) ==
    /\ NewlineTerminated(t)
    /\ Cardinality(Newlines(t)) = 2 * Len(qs)
    /\ \A k \in 1..Len(qs) : HeaderDecodesTo(Line(t, 2 * k - 1), qs[k].Index)

\* C19: for documents that all render and index names of any content (a
\* double quote, a backslash or a newline included), the text
\* MultiSearchDoc returns is exactly 2 * N lines, each ended by a newline,
\* and each odd line is the object {"index": s} whose string decodes to
\* the Index of its document.
C19_BatchLinesDecode ==
    (pc = "msearch_done" /\ AllRender(queries))
        => (ret.st = "ok" /\ IsBatchOf(ret.out, queries))

\* an index name without double quote, backslash or newline
PlainIndex(index) == \A k \in 1..Len(index) : index[k] \notin {"\"", "\\", "\n"}

\* What holds of the batch: with such index names the text is 2 * N lines
\* and each odd line decodes to the Index of its document.
BatchLinesDecodePlainIndex ==
    (pc = "msearch_done" /\ AllRender(queries)
        /\ \A k \in 1..Len(queries) : PlainIndex(queries[k].Index))
        => (ret.st = "ok" /\ IsBatchOf(ret.out, queries))

BatchLinesDecodePlainIndexWitness ==
    /\ pc = "msearch_done" /\ AllRender(queries)
    /\ Len(queries) = 2
    /\ queries[1].Index = <<"i", "1">> /\ queries[2].Index = <<"i", "1">>
    /\ queries[1].And # <<>>
    /\ Cardinality(Newlines(ret.out)) = 4
    /\ Line(ret.out, 3) = <<"{", "\"", "i", "n", "d", "e", "x", "\"", ":", "\"", "i", "1", "\"", "}">>

====
